---- MODULE Spec2Model ----
(***************************************************************************)
(* A model of hrv/utils.py: loading of RR-interval files (format sniffer,  *)
(* text and HRM parsers, unit normalisation) and the resampling of an      *)
(* interval series onto a uniform time grid.                               *)
(*                                                                         *)
(* A file content is a sequence of one-character strings.  A Python float  *)
(* is an exact rational <<n, d>> in lowest terms with d > 0; rounding of   *)
(* IEEE doubles is outside the model.  A Python value that is None, a list *)
(* or a numpy array is a record [kind, val].                               *)
(***************************************************************************)
EXTENDS Integers, Sequences, FiniteSets, TLC

VARIABLES
    file_content,     \* what fileobj.read() returns
    pc,               \* position of the call in progress
    file_type,        \* _open_rri_from_fileobj: file_type
    rri,              \* the interval sequence a function works on
    result,           \* the value returned to the caller
    error,            \* the exception raised to the caller, "none" if none
    calls,            \* the functions entered so far, in order
    fs,               \* sampling frequency of the uniform grid
    method,           \* frequency-domain method selector
    interp_method,    \* interpolation method selector
    entry,            \* how the interpolator is reached
    time_rri,         \* _interp_*: time_rri
    time_rri_interp,  \* _interp_*: time_rri_interp
    rri_interp        \* _interp_*: rri_interp

vars == <<file_content, pc, file_type, rri, result, error, calls, fs, method,
          interp_method, entry, time_rri, time_rri_interp, rri_interp>>

interpVars == <<fs, method, interp_method, entry, time_rri, time_rri_interp,
                rri_interp>>

(***************************************************************************)
(* Bounds of the model.                                                    *)
(***************************************************************************)
MaxPieces == 5    \* pieces a generated file content is made of
MaxBeats == 4     \* intervals of a series handed to the interpolator
MaxFs == 4        \* largest sampling frequency tried
MaxVals == 3      \* values of a sequence handed to a validate_rri wrapper

(***************************************************************************)
(* Exact rational arithmetic.                                              *)
(***************************************************************************)
Abs(n) == IF n < 0 THEN -n ELSE n

RECURSIVE GCD(_, _)
GCD(a, b) == IF b = 0 THEN a ELSE GCD(b, a % b)

Rat(n, d) ==
    LET g == GCD(Abs(n), Abs(d))
        s == IF d < 0 THEN -1 ELSE 1
    IN  <<(s * n) \div g, (s * d) \div g>>

RInt(n) == <<n, 1>>
RAdd(a, b) == Rat(a[1] * b[2] + b[1] * a[2], a[2] * b[2])
RSub(a, b) == Rat(a[1] * b[2] - b[1] * a[2], a[2] * b[2])
RMul(a, b) == Rat(a[1] * b[1], a[2] * b[2])
RDiv(a, b) == Rat(a[1] * b[2], a[2] * b[1])
RLt(a, b) == a[1] * b[2] < b[1] * a[2]
RLe(a, b) == a[1] * b[2] <= b[1] * a[2]
RCeil(a) == -((-a[1]) \div a[2])
RFloor(a) == a[1] \div a[2]

(***************************************************************************)
(* Python values.                                                          *)
(***************************************************************************)
None == [kind |-> "None", val |-> <<>>]
List(s) == [kind |-> "list", val |-> s]
NdArray(s) == [kind |-> "ndarray", val |-> s]
\* Python truthiness of None or a list: `not rri`
Falsy(v) == v.kind = "None" \/ (v.kind = "list" /\ Len(v.val) = 0)

(***************************************************************************)
(* Strings: str.find, str.split, str.strip, slicing, float(), re.findall.  *)
(***************************************************************************)
Marker == <<"[", "H", "R", "D", "a", "t", "a", "]">>
DigitChars == {"0", "1", "2", "3", "4", "5", "6", "7", "8", "9"}
NonZeroDigitChars == DigitChars \ {"0"}
Whitespace == {" ", "\t", "\n", "\r"}

DigitValue(ch) ==
    CASE ch = "0" -> 0 [] ch = "1" -> 1 [] ch = "2" -> 2 [] ch = "3" -> 3
      [] ch = "4" -> 4 [] ch = "5" -> 5 [] ch = "6" -> 6 [] ch = "7" -> 7
      [] ch = "8" -> 8 [] ch = "9" -> 9

\* str.find(sub): the lowest 0-based index where sub occurs, -1 if nowhere
RECURSIVE FindFrom(_, _, _)
FindFrom(s, sub, i) ==
    IF i + Len(sub) > Len(s) THEN -1
    ELSE IF SubSeq(s, i + 1, i + Len(sub)) = sub THEN i
    ELSE FindFrom(s, sub, i + 1)

StrFind(s, sub) == FindFrom(s, sub, 0)

\* str.split(sep) for a one-character separator
RECURSIVE SplitFrom(_, _, _, _)
SplitFrom(s, sep, i, cur) ==
    IF i > Len(s) THEN <<cur>>
    ELSE IF s[i] = sep THEN <<cur>> \o SplitFrom(s, sep, i + 1, <<>>)
    ELSE SplitFrom(s, sep, i + 1, Append(cur, s[i]))

StrSplit(s, sep) == SplitFrom(s, sep, 1, <<>>)

\* str.strip()
RECURSIVE LStrip(_)
LStrip(s) ==
    IF Len(s) > 0 /\ Head(s) \in Whitespace THEN LStrip(Tail(s)) ELSE s

RECURSIVE RStrip(_)
RStrip(s) ==
    IF Len(s) > 0 /\ s[Len(s)] \in Whitespace
    THEN RStrip(SubSeq(s, 1, Len(s) - 1)) ELSE s

StrStrip(s) == RStrip(LStrip(s))

\* s[start:-1] for a 0-based start >= 0
SliceToLast(s, start) == SubSeq(s, start + 1, Len(s) - 1)

\* float(s) for a string of decimal digits
RECURSIVE DigitsToInt(_)
DigitsToInt(s) ==
    IF Len(s) = 0 THEN 0
    ELSE 10 * DigitsToInt(SubSeq(s, 1, Len(s) - 1)) + DigitValue(s[Len(s)])

Float(s) == RInt(DigitsToInt(s))

MapFloat(matches) == [i \in 1..Len(matches) |-> Float(matches[i])]

\* the greedy \d* from position i: the last position of the digit run that
\* starts at i (i - 1 when s[i] is no digit)
RECURSIVE DigitRunEnd(_, _)
DigitRunEnd(s, i) ==
    IF i <= Len(s) /\ s[i] \in DigitChars THEN DigitRunEnd(s, i + 1) ELSE i - 1

\* re.findall(r'\d+', s): leftmost non-overlapping matches, left to right
RECURSIVE FindallDigitsFrom(_, _)
FindallDigitsFrom(s, i) ==
    IF i > Len(s) THEN <<>>
    ELSE IF s[i] \in DigitChars
         THEN LET e == DigitRunEnd(s, i)
              IN  <<SubSeq(s, i, e)>> \o FindallDigitsFrom(s, e + 1)
         ELSE FindallDigitsFrom(s, i + 1)

FindallDigits(s) == FindallDigitsFrom(s, 1)

\* re.findall(r'[1-9]\d+', s)
RECURSIVE FindallMultiDigitFrom(_, _)
FindallMultiDigitFrom(s, i) ==
    IF i > Len(s) THEN <<>>
    ELSE IF /\ s[i] \in NonZeroDigitChars
            /\ i + 1 <= Len(s)
            /\ s[i + 1] \in DigitChars
         THEN LET e == DigitRunEnd(s, i + 1)
              IN  <<SubSeq(s, i, e)>> \o FindallMultiDigitFrom(s, e + 1)
         ELSE FindallMultiDigitFrom(s, i + 1)

\* the same scan for r'[1-9]\d*': a single digit matches too
RECURSIVE FindallPositiveFrom(_, _)
FindallPositiveFrom(s, i) ==
    IF i > Len(s) THEN <<>>
    ELSE IF s[i] \in NonZeroDigitChars
         THEN LET e == DigitRunEnd(s, i + 1)
              IN  <<SubSeq(s, i, e)>> \o FindallPositiveFrom(s, e + 1)
         ELSE FindallPositiveFrom(s, i + 1)

(***************************************************************************)
(* The parsers and the format sniffer.                                     *)
(***************************************************************************)
_open_rri_from_text_single_digit(content) ==
    List(MapFloat(FindallPositiveFrom(content, 1)))

_open_rri_from_text(content) ==
    List(MapFloat(FindallMultiDigitFrom(content, 1)))

_open_rri_from_hrm_to_end(content) ==
    LET rri_info_index == StrFind(content, Marker)
    IN  IF rri_info_index >= 0
        THEN List(MapFloat(FindallDigits(
                 SubSeq(content, rri_info_index + 1, Len(content)))))
        ELSE None

_open_rri_from_hrm(content) ==
    LET rri_info_index == StrFind(content, Marker)
    IN  IF rri_info_index >= 0
        THEN List(MapFloat(FindallDigits(SliceToLast(content, rri_info_index))))
        ELSE None

\* a line of the text format that makes the sniffer raise
LineRaises(line) ==
    LET current_line_number == FindallDigits(line)
    IN  /\ Len(current_line_number) > 0
        /\ ~(current_line_number[1] = StrStrip(line))

LineRaisesUnstripped(line) ==
    LET current_line_number == FindallDigits(line)
    IN  /\ Len(current_line_number) > 0
        /\ ~(current_line_number[1] = line)

_identify_rri_file_type_no_strip(content) ==
    IF StrFind(content, Marker) >= 0 THEN "hrm"
    ELSE LET rri_lines == StrSplit(content, "\n")
         IN  IF \E k \in 1..Len(rri_lines) : LineRaisesUnstripped(rri_lines[k])
             THEN "FileNotSupportedError"
             ELSE "text"

\* the file type, or the name of the exception raised
_identify_rri_file_type(content) ==
    IF StrFind(content, Marker) >= 0 THEN "hrm"
    ELSE LET rri_lines == StrSplit(content, "\n")
         IN  IF \E k \in 1..Len(rri_lines) : LineRaises(rri_lines[k])
             THEN "FileNotSupportedError"
             ELSE "text"

(***************************************************************************)
(* The unit normaliser.                                                    *)
(***************************************************************************)
RECURSIVE SortedInsert(_, _)
SortedInsert(x, s) ==
    IF Len(s) = 0 THEN <<x>>
    ELSE IF RLe(x, Head(s)) THEN <<x>> \o s
    ELSE <<Head(s)>> \o SortedInsert(x, Tail(s))

RECURSIVE Sort(_)
Sort(s) == IF Len(s) = 0 THEN <<>> ELSE SortedInsert(Head(s), Sort(Tail(s)))

\* np.median of a non-empty sequence
Median(s) ==
    LET t == Sort(s)
        n == Len(s)
    IN  IF n % 2 = 1 THEN t[(n + 1) \div 2]
        ELSE RDiv(RAdd(t[n \div 2], t[n \div 2 + 1]), RInt(2))

\* list.__imul__(k): the list repeated k times
Repeat(s, k) == [i \in 1..(Len(s) * k) |-> s[((i - 1) % Len(s)) + 1]]

\* `v *= k`: a list is repeated, a numpy array is scaled element by element
IMul(v, k) ==
    IF v.kind = "list" THEN List(Repeat(v.val, k))
    ELSE NdArray([i \in 1..Len(v.val) |-> RMul(v.val[i], RInt(k))])

\* np.median of an empty sequence is nan, and nan < 1 is False
_transform_rri_to_miliseconds(v) ==
    IF Len(v.val) > 0 /\ RLt(Median(v.val), RInt(1)) THEN IMul(v, 1000) ELSE v

_transform_rri(v) == NdArray(_transform_rri_to_miliseconds(v).val)

(***************************************************************************)
(* File contents tried: every concatenation of at most MaxPieces pieces,   *)
(* and a few longer files.                                                 *)
(***************************************************************************)
Pieces == {<<"0">>, <<"1">>, <<" ">>, <<"\n">>, <<"x">>, Marker}

RECURSIVE Concat(_)
Concat(ps) == IF Len(ps) = 0 THEN <<>> ELSE Head(ps) \o Concat(Tail(ps))

TextThreeBeats == <<"8", "0", "0", "\n", "8", "1", "0", "\n", "7", "9", "0", "\n">>
HrmThreeBeats ==
    <<"[", "H", "R", "D", "a", "t", "a", "]", "\n", "7", "0", "0", "\n", "7", "1", "0", "\n", "7", "2", "0", "\n">>
TextTwoTokens == <<"1", "2", " ", "3", "4">>
TextSingleDigit == <<"5", "\n">>
TextLeadingZero == <<"0", "8", "0", "0", "\n", "0", "5", "\n">>
HrmWithHeader ==
    <<"V", "e", "r", "s", "i", "o", "n", "=", "1", "0", "6", "\n", "[", "H", "R", "D", "a", "t", "a", "]", "\n", "0", "\n", "6", "5", "0", "\n">>
BrokenMarker == <<"[", "H", "R", "D", "a", "t", "a", "\n", "6", "5", "0", "\n">>

ExtraContents ==
    {TextThreeBeats, HrmThreeBeats, TextTwoTokens, TextSingleDigit,
     TextLeadingZero, HrmWithHeader, BrokenMarker}

Contents ==
    {Concat(ps) : ps \in UNION {[1..n -> Pieces] : n \in 0..MaxPieces}}
        \cup ExtraContents

(***************************************************************************)
(* Loading: open_rri on an open text stream, step by step, and a direct    *)
(* call of the HRM parser.                                                 *)
(***************************************************************************)
InterpIdle ==
    /\ fs = 0 /\ method = "" /\ interp_method = "" /\ entry = ""
    /\ time_rri = <<>> /\ time_rri_interp = <<>> /\ rri_interp = None

InitLoad ==
    /\ file_content \in Contents
    /\ pc = "start"
    /\ file_type = "unset"
    /\ rri = None
    /\ result = None
    /\ error = "none"
    /\ calls = <<>>
    /\ InterpIdle

\* _open_rri_from_fileobj, lines 47-48: read the stream and sniff the format
IdentifyStep ==
    /\ pc = "start"
    /\ calls' = calls \o <<"open_rri", "_open_rri_from_fileobj",
                           "_identify_rri_file_type">>
    /\ LET t == _identify_rri_file_type(file_content)
       IN  IF t = "FileNotSupportedError"
           THEN /\ pc' = "raised"
                /\ error' = t
                /\ file_type' = file_type
           ELSE /\ pc' = "sniffed"
                /\ error' = error
                /\ file_type' = t
    /\ UNCHANGED <<file_content, rri, result>>
    /\ UNCHANGED interpVars

TextStepNoCheck ==
    /\ pc = "sniffed"
    /\ file_type = "text"
    /\ calls' = Append(calls, "_open_rri_from_text")
    /\ rri' = _open_rri_from_text(file_content)
    /\ pc' = "parsed"
    /\ UNCHANGED <<file_content, file_type, result, error>>
    /\ UNCHANGED interpVars

\* _open_rri_from_fileobj, lines 49-52
TextStep ==
    /\ pc = "sniffed"
    /\ file_type = "text"
    /\ calls' = Append(calls, "_open_rri_from_text")
    /\ rri' = _open_rri_from_text(file_content)
    /\ IF Falsy(rri')
       THEN pc' = "raised" /\ error' = "EmptyFileError"
       ELSE pc' = "parsed" /\ error' = error
    /\ UNCHANGED <<file_content, file_type, result>>
    /\ UNCHANGED interpVars

\* _open_rri_from_fileobj, lines 53-56
HrmStep ==
    /\ pc = "sniffed"
    /\ file_type # "text"
    /\ calls' = Append(calls, "_open_rri_from_hrm")
    /\ rri' = _open_rri_from_hrm(file_content)
    /\ IF Falsy(rri')
       THEN pc' = "raised" /\ error' = "EmptyFileError"
       ELSE pc' = "parsed" /\ error' = error
    /\ UNCHANGED <<file_content, file_type, result>>
    /\ UNCHANGED interpVars

\* open_rri, line 31
TransformStep ==
    /\ pc = "parsed"
    /\ calls' = Append(calls, "_transform_rri")
    /\ result' = _transform_rri(rri)
    /\ pc' = "done"
    /\ UNCHANGED <<file_content, file_type, rri, error>>
    /\ UNCHANGED interpVars

\* a caller applies _open_rri_from_hrm to the content without sniffing it
CallOpenRriFromHrm ==
    /\ pc = "start"
    /\ calls' = Append(calls, "_open_rri_from_hrm")
    /\ result' = _open_rri_from_hrm(file_content)
    /\ pc' = "returned"
    /\ UNCHANGED <<file_content, file_type, rri, error>>
    /\ UNCHANGED interpVars

NextLoad ==
    \/ IdentifyStep
    \/ TextStep
    \/ HrmStep
    \/ TransformStep
    \/ CallOpenRriFromHrm

SpecLoad == InitLoad /\ [][NextLoad]_vars

(***************************************************************************)
(* What the loading functions are to compute, stated on the positions of   *)
(* the content instead of by a scan.                                       *)
(***************************************************************************)
Range(s) == {s[i] : i \in 1..Len(s)}

MarkerAt(c, i) ==
    /\ i + Len(Marker) - 1 <= Len(c)
    /\ \A j \in 1..Len(Marker) : c[i + j - 1] = Marker[j]

ContainsMarker(c) == \E i \in 1..Len(c) : MarkerAt(c, i)

\* the first and last positions of the lines of c (the segments between
\* line feeds; an empty line has last = first - 1)
LineSpans(c) ==
    {sp \in (1..(Len(c) + 1)) \X (0..Len(c)) :
        /\ sp[2] >= sp[1] - 1
        /\ sp[1] = 1 \/ c[sp[1] - 1] = "\n"
        /\ sp[2] = Len(c) \/ c[sp[2] + 1] = "\n"
        /\ \A k \in sp[1]..sp[2] : c[k] # "\n"}

\* the first run of digits of a line that has a digit
FirstDigitRun(l) ==
    LET p == CHOOSE i \in 1..Len(l) :
                 l[i] \in DigitChars /\ \A k \in 1..(i - 1) : l[k] \notin DigitChars
        q == CHOOSE e \in p..Len(l) :
                 /\ \A k \in p..e : l[k] \in DigitChars
                 /\ e = Len(l) \/ l[e + 1] \notin DigitChars
    IN  SubSeq(l, p, q)

\* the line without its leading and trailing whitespace
Stripped(l) ==
    LET solid == {k \in 1..Len(l) : l[k] \notin Whitespace}
    IN  IF solid = {} THEN <<>>
        ELSE SubSeq(l, CHOOSE a \in solid : \A k \in solid : a <= k,
                       CHOOSE b \in solid : \A k \in solid : k <= b)

HasDigit(l) == \E k \in 1..Len(l) : l[k] \in DigitChars

MalformedLine(l) == HasDigit(l) /\ FirstDigitRun(l) # Stripped(l)

\* blank, without digits, or a single integer
WellFormedLine(l) ==
    \/ \A k \in 1..Len(l) : l[k] \in Whitespace
    \/ ~HasDigit(l)
    \/ /\ Stripped(l) # <<>>
       /\ \A k \in 1..Len(Stripped(l)) : Stripped(l)[k] \in DigitChars

SomeLineMalformed(c) ==
    \E sp \in LineSpans(c) : MalformedLine(SubSeq(c, sp[1], sp[2]))

EveryLineWellFormed(c) ==
    \A sp \in LineSpans(c) : WellFormedLine(SubSeq(c, sp[1], sp[2]))

\* the maximal runs of digits of s, as <<first, last>> positions
DigitRuns(s) ==
    {r \in (1..Len(s)) \X (1..Len(s)) :
        /\ r[1] <= r[2]
        /\ \A k \in r[1]..r[2] : s[k] \in DigitChars
        /\ r[1] = 1 \/ s[r[1] - 1] \notin DigitChars
        /\ r[2] = Len(s) \/ s[r[2] + 1] \notin DigitChars}

RECURSIVE Pow10(_)
Pow10(k) == IF k = 0 THEN 1 ELSE 10 * Pow10(k - 1)

RECURSIVE DigitSum(_, _, _)
DigitSum(s, i, e) ==
    IF i > e THEN 0
    ELSE DigitValue(s[i]) * Pow10(e - i) + DigitSum(s, i + 1, e)

\* the runs of the set R of s in text order, each as the number it writes
NumbersOf(s, R) ==
    [k \in 1..Cardinality(R) |->
        LET r == CHOOSE x \in R : Cardinality({y \in R : y[1] < x[1]}) = k - 1
        IN  RInt(DigitSum(s, r[1], r[2]))]

\* numbers written with two or more digits and a first digit 1-9
WrittenMultiDigit(s) ==
    {r \in DigitRuns(s) : r[2] > r[1] /\ s[r[1]] \in NonZeroDigitChars}

\* numbers whose value is 10 or more, however many zeros lead them
TenOrMore(s) == {r \in DigitRuns(s) : DigitSum(s, r[1], r[2]) >= 10}

FirstMarker(c) ==
    CHOOSE i \in 1..Len(c) : MarkerAt(c, i) /\ \A k \in 1..(i - 1) : ~MarkerAt(c, k)

\* from the first marker to the character before the last
HrmSection(c) == SubSeq(c, FirstMarker(c), Len(c) - 1)

HrmExpected(c) ==
    IF ContainsMarker(c)
    THEN List(NumbersOf(HrmSection(c), DigitRuns(HrmSection(c))))
    ELSE None

Sniffed == pc \in {"sniffed", "parsed", "done", "raised"}

\* C1: the sniffer returns 'hrm' iff the content contains '[HRData]';
\* otherwise it raises FileNotSupportedError iff some line has a digit and
\* its first run of digits differs from the stripped line; otherwise (every
\* line blank, without digits or a single integer) it returns 'text'.
C1_SnifferClassifies ==
    Sniffed =>
        /\ file_type = "hrm" <=> ContainsMarker(file_content)
        /\ error = "FileNotSupportedError" <=>
               ~ContainsMarker(file_content) /\ SomeLineMalformed(file_content)
        /\ file_type = "text" <=>
               ~ContainsMarker(file_content) /\ EveryLineWellFormed(file_content)
        /\ file_content = TextTwoTokens => error = "FileNotSupportedError"

C1_Witness ==
    /\ pc = "raised"
    /\ error = "FileNotSupportedError"
    /\ file_content = TextTwoTokens

TextParsed ==
    /\ file_type = "text"
    /\ pc \in {"parsed", "done"} \/ (pc = "raised" /\ error = "EmptyFileError")

\* C2 as claimed: for a content sniffed as text the text parser returns, in
\* text order, exactly the numbers written with two or more digits and a
\* first digit 1-9; a number below 10 or written with a leading zero
\* contributes nothing.
C2_LeadingZeroIgnored ==
    TextParsed =>
        rri = List(NumbersOf(file_content, WrittenMultiDigit(file_content)))

\* C2 as amended: for a content sniffed as text the text parser returns, in
\* text order, exactly the numbers of the content whose value is 10 or
\* more, leading zeros or not; a number below 10 contributes nothing.
C2_TextParserKeepsTenOrMore ==
    TextParsed =>
        /\ rri = List(NumbersOf(file_content, TenOrMore(file_content)))
        /\ file_content = TextThreeBeats =>
               rri.val = <<RInt(800), RInt(810), RInt(790)>>

C2_Witness ==
    /\ pc = "parsed"
    /\ file_content = TextLeadingZero
    /\ rri.val = <<RInt(800)>>

\* C3: for a content with the marker the HRM parser returns exactly the
\* maximal runs of digits between the first marker and the final character
\* (excluded), in order, so no digit before the marker; for a content
\* without the marker it returns no data.
C3_HrmParserExtractsSection ==
    /\ pc = "returned" =>
           /\ result = HrmExpected(file_content)
           /\ file_content = HrmThreeBeats =>
                  result.val = <<RInt(700), RInt(710), RInt(720)>>
    /\ (file_type = "hrm" /\ pc \in {"parsed", "done", "raised"}) =>
           rri = HrmExpected(file_content)

C3_Witness ==
    /\ pc = "returned"
    /\ file_content = HrmWithHeader
    /\ result.val = <<RInt(0), RInt(650)>>

SniffPasses(c) == ContainsMarker(c) \/ EveryLineWellFormed(c)

ExtractedNothing(c) ==
    IF ContainsMarker(c) THEN DigitRuns(HrmSection(c)) = {}
    ELSE TenOrMore(c) = {}

\* C4: loading raises EmptyFileError iff the sniffer classified the content
\* and the parser it selected extracted no value; the error comes before
\* unit normalisation and nothing is returned; a text whose only number is
\* '5' raises it; a content that fails the sniff raises
\* FileNotSupportedError instead.
C4_EmptyFileErrorIffNoValues ==
    pc \in {"parsed", "done", "raised"} =>
        /\ error = "EmptyFileError" <=>
               SniffPasses(file_content) /\ ExtractedNothing(file_content)
        /\ error = "EmptyFileError" =>
               /\ pc = "raised"
               /\ result = None
               /\ "_transform_rri" \notin Range(calls)
        /\ ~SniffPasses(file_content) => error = "FileNotSupportedError"
        /\ file_content = TextSingleDigit =>
               file_type = "text" /\ error = "EmptyFileError"

C4_Witness ==
    /\ pc = "raised"
    /\ error = "EmptyFileError"
    /\ file_type = "text"
    /\ file_content = TextSingleDigit

\* C7: every value of the sequence open_rri returns is strictly positive.
C7_LoadedValuesPositive ==
    pc = "done" => \A i \in 1..Len(result.val) : RLt(RInt(0), result.val[i])

(***************************************************************************)
(* validate_rri: a sequence supplied by a caller is validated, then        *)
(* normalised, then handed to the wrapped function.                        *)
(***************************************************************************)
NormValues == {RInt(0), Rat(1, 2), Rat(4, 5), RInt(1), RInt(800)}

SeqsUpTo(S, n) == UNION {[1..k -> S] : k \in 0..n}

InitNormalize ==
    /\ \E s \in SeqsUpTo(NormValues, MaxVals) : rri \in {List(s), NdArray(s)}
    /\ pc = "validate"
    /\ file_content = <<>>
    /\ file_type = "unset"
    /\ result = None
    /\ error = "none"
    /\ calls = <<>>
    /\ InterpIdle

\* validate_rri._validate, line 92
ValidatePositiveNumbers ==
    /\ pc = "validate"
    /\ calls' = Append(calls, "_validate_positive_numbers")
    /\ IF \A i \in 1..Len(rri.val) : RLt(RInt(0), rri.val[i])
       THEN pc' = "validated" /\ error' = error
       ELSE pc' = "raised" /\ error' = "ValueError"
    /\ UNCHANGED <<file_content, file_type, rri, result>>
    /\ UNCHANGED interpVars

\* validate_rri._validate, line 93
TransformValidated ==
    /\ pc = "validated"
    /\ calls' = Append(calls, "_transform_rri")
    /\ result' = _transform_rri(rri)
    /\ pc' = "normalized"
    /\ UNCHANGED <<file_content, file_type, rri, error>>
    /\ UNCHANGED interpVars

NextNormalize ==
    \/ ValidatePositiveNumbers
    \/ TransformValidated

SpecNormalize == InitNormalize /\ [][NextNormalize]_vars

Scaled(s, k) == [i \in 1..Len(s) |-> RMul(s[i], RInt(k))]

\* C6: for a non-empty sequence, list or array, the normaliser returns a
\* sequence of the same length and order: every value times 1000 when the
\* median is below 1, every value unchanged otherwise.
C6_NormalizerScalesElementwise ==
    (pc = "normalized" /\ Len(rri.val) > 0) =>
        result.val = IF RLt(Median(rri.val), RInt(1))
                     THEN Scaled(rri.val, 1000)
                     ELSE rri.val

\* the normaliser on a numpy array alone: scaled element by element
NormalizerScalesArrays ==
    (pc = "normalized" /\ Len(rri.val) > 0 /\ rri.kind = "ndarray") =>
        result.val = IF RLt(Median(rri.val), RInt(1))
                     THEN Scaled(rri.val, 1000)
                     ELSE rri.val

(***************************************************************************)
(* Resampling: the time base, the uniform grid and the interpolators.      *)
(***************************************************************************)
\* np.cumsum
RECURSIVE CumSum(_)
CumSum(s) ==
    IF Len(s) = 0 THEN <<>>
    ELSE LET c == CumSum(SubSeq(s, 1, Len(s) - 1))
         IN  Append(c, IF Len(c) = 0 THEN s[1] ELSE RAdd(c[Len(c)], s[Len(s)]))

_create_time_info_unanchored(r) ==
    LET c == CumSum(r) IN [i \in 1..Len(r) |-> RDiv(c[i], RInt(1000))]

_create_time_info(r) ==
    LET c == CumSum(r)
        rri_time == [i \in 1..Len(r) |-> RDiv(c[i], RInt(1000))]
    IN  [i \in 1..Len(r) |-> RSub(rri_time[i], rri_time[1])]

\* np.arange(start, stop, step): ceil((stop - start) / step) values
\* start + k * step
Arange(start, stop, step) ==
    LET n == RCeil(RDiv(RSub(stop, start), step))
    IN  [k \in 1..n |-> RAdd(start, RMul(RInt(k - 1), step))]

\* the grid with the end point counted in
ArangeClosed(start, stop, step) ==
    LET n == RFloor(RDiv(RSub(stop, start), step)) + 1
    IN  [k \in 1..n |-> RAdd(start, RMul(RInt(k - 1), step))]

_create_interp_time_closed(r, f) ==
    LET t == _create_time_info(r)
    IN  ArangeClosed(RInt(0), t[Len(t)], RDiv(RInt(1), RInt(f)))

_create_interp_time(r, f) ==
    LET t == _create_time_info(r)
    IN  Arange(RInt(0), t[Len(t)], RDiv(RInt(1), RInt(f)))

\* the index j of np.interp's search: the last j with xp[j] <= x
RECURSIVE LastNotAfter(_, _, _)
LastNotAfter(xp, x, j) ==
    IF j < Len(xp) /\ RLe(xp[j + 1], x) THEN LastNotAfter(xp, x, j + 1) ELSE j

\* np.interp at one point, xp increasing
InterpAt(x, xp, fp) ==
    IF RLt(x, xp[1]) THEN fp[1]
    ELSE IF RLe(xp[Len(xp)], x) THEN fp[Len(fp)]
    ELSE LET j == LastNotAfter(xp, x, 1)
             slope == RDiv(RSub(fp[j + 1], fp[j]), RSub(xp[j + 1], xp[j]))
         IN  RAdd(RMul(slope, RSub(x, xp[j])), fp[j])

\* the value of the sample before the point, held
HoldAt(x, xp, fp) ==
    IF RLt(x, xp[1]) THEN fp[1] ELSE fp[LastNotAfter(xp, x, 1)]

NpInterpHold(x, xp, fp) == [k \in 1..Len(x) |-> HoldAt(x[k], xp, fp)]

\* np.interp(x, xp, fp)
NpInterp(x, xp, fp) == [k \in 1..Len(x) |-> InterpAt(x[k], xp, fp)]

RriValues == {RInt(300), RInt(500), RInt(1000)}
Methods == {"welch", "fft"}
InterpMethods == {"cubic", "linear", "bogus"}

InitInterp ==
    /\ \E s \in SeqsUpTo(RriValues, MaxBeats) : Len(s) > 0 /\ rri = NdArray(s)
    /\ fs \in 1..MaxFs
    /\ interp_method \in InterpMethods
    /\ \/ entry = "direct" /\ method = "" /\ pc = "interpolate"
       \/ entry = "wrapped" /\ method \in Methods /\ pc = "check_arguments"
    /\ time_rri = <<>>
    /\ time_rri_interp = <<>>
    /\ rri_interp = None
    /\ file_content = <<>>
    /\ file_type = "unset"
    /\ result = None
    /\ error = "none"
    /\ calls = <<>>

\* validate_frequency_domain_arguments._check_frequency_domain_arguments:
\* the method is validated and the wrapped function, which calls the
\* interpolator, is entered
CheckFrequencyDomainArguments ==
    /\ pc = "check_arguments"
    /\ calls' = Append(calls, "_validate_available_methods")
    /\ IF method \notin {"welch"}
       THEN pc' = "raised" /\ error' = "ValueError"
       ELSE pc' = "interpolate" /\ error' = error
    /\ UNCHANGED <<file_content, file_type, rri, result>>
    /\ UNCHANGED interpVars

\* _interpolate_rri with 'cubic': _interp_cubic_spline.  The spline is
\* SciPy's: splrep refuses fewer than four points, and the values splev
\* returns are not modelled.
InterpCubicSpline ==
    /\ pc = "interpolate"
    /\ interp_method = "cubic"
    /\ calls' = calls \o <<"_interpolate_rri", "_interp_cubic_spline",
                           "_create_time_info", "_create_interp_time">>
    /\ time_rri' = _create_time_info(rri.val)
    /\ time_rri_interp' = _create_interp_time(rri.val, fs)
    /\ IF Len(rri.val) <= 3
       THEN /\ pc' = "raised"
            /\ error' = "TypeError"
            /\ UNCHANGED <<rri_interp, result>>
       ELSE /\ pc' = "returned"
            /\ rri_interp' = [kind |-> "splev", val |-> <<>>]
            /\ result' = [kind |-> "tuple",
                          val |-> <<time_rri_interp', rri_interp'.val>>]
            /\ error' = error
    /\ UNCHANGED <<file_content, file_type, rri, fs, method, interp_method,
                   entry>>

\* _interpolate_rri with 'linear': _interp_linear
InterpLinear ==
    /\ pc = "interpolate"
    /\ interp_method = "linear"
    /\ calls' = calls \o <<"_interpolate_rri", "_interp_linear",
                           "_create_time_info", "_create_interp_time">>
    /\ time_rri' = _create_time_info(rri.val)
    /\ time_rri_interp' = _create_interp_time(rri.val, fs)
    /\ rri_interp' = NdArray(NpInterp(time_rri_interp', time_rri', rri.val))
    /\ result' = [kind |-> "tuple",
                  val |-> <<time_rri_interp', rri_interp'.val>>]
    /\ pc' = "returned"
    /\ UNCHANGED <<file_content, file_type, rri, error, fs, method,
                   interp_method, entry>>

\* _interpolate_rri with any other selector: no branch is taken and the
\* function returns None
InterpolateFallThrough ==
    /\ pc = "interpolate"
    /\ interp_method \notin {"cubic", "linear"}
    /\ calls' = Append(calls, "_interpolate_rri")
    /\ result' = None
    /\ pc' = "returned"
    /\ UNCHANGED <<file_content, file_type, rri, error>>
    /\ UNCHANGED interpVars

NextInterp ==
    \/ CheckFrequencyDomainArguments
    \/ InterpCubicSpline
    \/ InterpLinear
    \/ InterpolateFallThrough

SpecInterp == InitInterp /\ [][NextInterp]_vars

Init == InitLoad \/ InitNormalize \/ InitInterp

Next == NextLoad \/ NextNormalize \/ NextInterp

Spec == Init /\ [][Next]_vars

(***************************************************************************)
(* Properties of the resampling.                                           *)
(***************************************************************************)
TimeBaseBuilt == "_create_time_info" \in Range(calls)

Last(s) == s[Len(s)]

\* C5: an interpolation method that is neither 'cubic' nor 'linear' makes
\* the call raise an error; it never returns normally without a result.
C5_UnknownMethodRaises ==
    (interp_method \notin {"cubic", "linear"} /\ pc \in {"returned", "raised"})
        => error # "none"

RECURSIVE SumBetween(_, _, _)
SumBetween(s, a, b) ==
    IF a > b THEN RInt(0) ELSE RAdd(s[a], SumBetween(s, a + 1, b))

\* C9: the time base has the length of the input, starts at exactly 0, is
\* non-decreasing, and its i-th element is the sum of the intervals after
\* the first up to index i, divided by 1000.
C9_TimeBaseZeroAnchored ==
    TimeBaseBuilt =>
        /\ Len(time_rri) = Len(rri.val)
        /\ time_rri[1] = RInt(0)
        /\ \A i \in 1..(Len(time_rri) - 1) : RLe(time_rri[i], time_rri[i + 1])
        /\ \A i \in 1..Len(time_rri) :
               time_rri[i] = RDiv(SumBetween(rri.val, 2, i), RInt(1000))

C9_Witness ==
    /\ TimeBaseBuilt
    /\ rri.val = <<RInt(300), RInt(500), RInt(1000)>>
    /\ time_rri = <<RInt(0), Rat(1, 2), Rat(3, 2)>>

GridIsMultiplesBelowEnd ==
    /\ \A k \in 1..Len(time_rri_interp) :
           /\ time_rri_interp[k] = Rat(k - 1, fs)
           /\ RLt(time_rri_interp[k], Last(time_rri))

\* C8 as claimed: the grid has floor(time_base[-1] * fs) points, they are
\* 0, 1/fs, 2/fs, ... and each is strictly less than time_base[-1].
C8_GridLengthIsFloor ==
    TimeBaseBuilt =>
        /\ Len(time_rri_interp) = RFloor(RMul(Last(time_rri), RInt(fs)))
        /\ GridIsMultiplesBelowEnd

\* C8 as amended: the grid has ceil(time_base[-1] * fs) points, which is
\* the number of multiples of 1/fs in [0, time_base[-1]); they are
\* 0, 1/fs, 2/fs, ... and each is strictly less than time_base[-1].
C8_GridLengthIsCeil ==
    TimeBaseBuilt =>
        /\ Len(time_rri_interp) = RCeil(RMul(Last(time_rri), RInt(fs)))
        /\ Len(time_rri_interp) =
               Cardinality({k \in 0..(Last(time_rri)[1] * fs) :
                                RLt(Rat(k, fs), Last(time_rri))})
        /\ GridIsMultiplesBelowEnd

C8_Witness ==
    /\ TimeBaseBuilt
    /\ rri.val = <<RInt(500), RInt(300)>>
    /\ fs = 1
    /\ time_rri_interp = <<RInt(0)>>

MinOf(s) == CHOOSE m \in Range(s) : \A v \in Range(s) : RLe(m, v)
MaxOf(s) == CHOOSE m \in Range(s) : \A v \in Range(s) : RLe(v, m)

\* the value v at time t lies on the segment from (t1, v1) to (t2, v2)
OnSegment(t, v, t1, v1, t2, v2) ==
    /\ RLe(t1, t) /\ RLe(t, t2)
    /\ RMul(RSub(v, v1), RSub(t2, t1)) = RMul(RSub(v2, v1), RSub(t, t1))

\* C10: 'linear' returns the grid and as many values as the grid has
\* points; the value at a grid point is the piecewise-linear interpolation
\* of the intervals over the time base, so it lies between the least and
\* the greatest interval; time [0, 1], values [0, 10], fs 2 give [0, 5] at
\* the grid [0, 0.5].
C10_LinearInterpolation ==
    /\ (pc = "returned" /\ interp_method = "linear") =>
           /\ result.val[1] = time_rri_interp
           /\ result.val[2] = rri_interp.val
           /\ Len(rri_interp.val) = Len(time_rri_interp)
           /\ \A k \in 1..Len(time_rri_interp) :
                  /\ \E i \in 1..(Len(time_rri) - 1) :
                         OnSegment(time_rri_interp[k], rri_interp.val[k],
                                   time_rri[i], rri.val[i],
                                   time_rri[i + 1], rri.val[i + 1])
                  /\ RLe(MinOf(rri.val), rri_interp.val[k])
                  /\ RLe(rri_interp.val[k], MaxOf(rri.val))
    /\ Arange(RInt(0), RInt(1), Rat(1, 2)) = <<RInt(0), Rat(1, 2)>>
    /\ NpInterp(<<RInt(0), Rat(1, 2)>>, <<RInt(0), RInt(1)>>,
                <<RInt(0), RInt(10)>>) = <<RInt(0), RInt(5)>>

C10_Witness ==
    /\ pc = "returned"
    /\ interp_method = "linear"
    /\ rri.val = <<RInt(500), RInt(1000)>>
    /\ fs = 2
    /\ time_rri = <<RInt(0), RInt(1)>>
    /\ time_rri_interp = <<RInt(0), Rat(1, 2)>>
    /\ rri_interp.val = <<RInt(500), RInt(750)>>

====
